---- MODULE Spec2Model ----
(***************************************************************************)
(* Model of the two PR-agent MCP servers:                                  *)
(*   basic   : projects/unit3/build-mcp-server/starter/server.py           *)
(*   actions : projects/unit3/github-actions-integration/starter/server.py *)
(*                                                                         *)
(* Every tool is a stateless request handler.  A behaviour is one          *)
(* dispatcher call: Init fixes the call (server, tool, arguments) and the  *)
(* environment the handler will observe (subprocess outcomes, template     *)
(* storage, event log); the tool's action runs the whole handler and       *)
(* records what the dispatcher gets back in ret.                           *)
(*                                                                         *)
(* A Python str is a sequence of one-character strings; a Python list is a *)
(* sequence; a dict / JSON object is a function from key names to values.  *)
(***************************************************************************)
EXTENDS Integers, Sequences, FiniteSets, TLC

VARIABLES call, env, pc, ret

vars == <<call, env, pc, ret>>

(***************************************************************************)
(* Bounds of the explored inputs.                                          *)
(***************************************************************************)
MaxDiffLines == 3

(***************************************************************************)
(* Python str / list primitives used by the handlers.                      *)
(***************************************************************************)
NL == "\n"
TAB == "\t"
SP == " "

\* Characters removed by str.strip() with no argument.
Whitespace == {SP, TAB, NL, "\r"}

\* s.split(sep) for a one-character separator: always at least one field.
split(s, sep) ==
  LET seps == {i \in 1..Len(s) : s[i] = sep}
      n == Cardinality(seps)
      pos(k) == IF k = 0 THEN 0
                ELSE IF k = n + 1 THEN Len(s) + 1
                ELSE CHOOSE i \in seps : Cardinality({j \in seps : j < i}) = k - 1
  IN [k \in 1..(n + 1) |-> SubSeq(s, pos(k - 1) + 1, pos(k) - 1)]

\* sep.join(parts)
RECURSIVE join(_, _)
join(parts, sep) ==
  IF parts = <<>> THEN <<>>
  ELSE IF Len(parts) = 1 THEN parts[1]
  ELSE parts[1] \o <<sep>> \o join(Tail(parts), sep)

\* s.strip()
strip(s) ==
  LET keep == {i \in 1..Len(s) : s[i] \notin Whitespace}
  IN IF keep = {} THEN <<>>
     ELSE SubSeq(s, CHOOSE i \in keep : \A j \in keep : i <= j,
                    CHOOSE i \in keep : \A j \in keep : j <= i)

\* An f-string "prefix{detail}": kept as the pair of its literal part and
\* the interpolated value.
Msg(prefix, detail) == <<prefix, detail>>

(***************************************************************************)
(* What a handler hands back to the dispatcher.                            *)
(***************************************************************************)
\* json.dumps of a dict
ReturnObject(obj) == [kind |-> "return", json |-> "object", value |-> obj]
\* json.dumps of a list
ReturnArray(arr) == [kind |-> "return", json |-> "array", value |-> arr]
\* an exception that leaves the handler
Raise(exc) == [kind |-> "raise", json |-> "none", value |-> exc]

NoReturn == [kind |-> "pending", json |-> "none", value |-> <<>>]

(***************************************************************************)
(* subprocess.run(..., capture_output=True, text=True): the outcome is     *)
(* part of the environment.  raises = the executable could not be started. *)
(***************************************************************************)
Completed(returncode, stdout, stderr) ==
  [raises |-> FALSE, returncode |-> returncode, stdout |-> stdout, stderr |-> stderr]
Unavailable ==
  [raises |-> TRUE, returncode |-> 127, stdout |-> <<>>, stderr |-> <<>>]

(***************************************************************************)
(* basic server: analyze_file_changes                                      *)
(***************************************************************************)
max_diff_chars == 20000

\* lines 48-58: one {status, filename} per non-empty line with >= 2 fields
RECURSIVE parse_files_changed(_)
parse_files_changed(lines) ==
  IF lines = <<>> THEN <<>>
  ELSE LET line == Head(lines)
           parts == split(line, TAB)
       IN (IF line # <<>> /\ Len(parts) >= 2
           THEN <<[status |-> parts[1], filename |-> parts[2]]>>
           ELSE <<>>) \o parse_files_changed(Tail(lines))

\* lines 81-88: the loop that accumulates whole lines within the budget
RECURSIVE truncated_lines_ge(_, _, _)
truncated_lines_ge(diff_lines, truncated_lines, char_count) ==
  IF diff_lines = <<>> THEN truncated_lines
  ELSE LET line == Head(diff_lines)
       IN IF char_count + Len(line) + 1 >= max_diff_chars
          THEN truncated_lines
          ELSE truncated_lines_ge(Tail(diff_lines), Append(truncated_lines, line),
                                  char_count + Len(line) + 1)

RECURSIVE truncated_lines_loop(_, _, _)
truncated_lines_loop(diff_lines, truncated_lines, char_count) ==
  IF diff_lines = <<>> THEN truncated_lines
  ELSE LET line == Head(diff_lines)
       IN IF char_count + Len(line) + 1 > max_diff_chars
          THEN truncated_lines
          ELSE truncated_lines_loop(Tail(diff_lines), Append(truncated_lines, line),
                                    char_count + Len(line) + 1)

\* lines 75-95: the diff fields of the result when git diff exits 0
diff_fields_ge(diff_content) ==
  IF Len(diff_content) >= max_diff_chars
  THEN [diff |-> join(truncated_lines_loop(split(diff_content, NL), <<>>, 0), NL),
        diff_truncated |-> TRUE,
        original_diff_size |-> Len(diff_content)]
  ELSE [diff |-> diff_content, diff_truncated |-> FALSE]

diff_fields(diff_content) ==
  IF Len(diff_content) > max_diff_chars
  THEN [diff |-> join(truncated_lines_loop(split(diff_content, NL), <<>>, 0), NL),
        diff_truncated |-> TRUE,
        original_diff_size |-> Len(diff_content)]
  ELSE [diff |-> diff_content, diff_truncated |-> FALSE]

\* lines 104-109: the except clause
basic_analyze_exception(e) ==
  ReturnObject([error |-> Msg("Exception occurred: ", e),
                files_changed |-> <<>>,
                diff |-> <<>>])

\* lines 26-109.  e.roots is the outcome of context.session.list_roots(),
\* e.name_status and e.diff the outcomes of the two git subprocesses.
basic_analyze_file_changes(base_branch, include_diff, e) ==
  IF e.roots = "raises" THEN basic_analyze_exception("list_roots")
  ELSE IF e.name_status.raises THEN basic_analyze_exception("FileNotFoundError")
  ELSE IF e.name_status.returncode # 0
  THEN ReturnObject([error |-> Msg("Git command failed: ", e.name_status.stderr),
                     files_changed |-> <<>>,
                     diff |-> <<>>])
  ELSE
    LET files_changed == parse_files_changed(split(strip(e.name_status.stdout), NL))
        result == [files_changed |-> files_changed, total_files |-> Len(files_changed)]
    IN IF include_diff /\ files_changed # <<>>
       THEN IF e.diff.raises THEN basic_analyze_exception("FileNotFoundError")
            ELSE IF e.diff.returncode = 0
            THEN ReturnObject(result @@ diff_fields(e.diff.stdout))
            ELSE ReturnObject(result @@ [diff |-> <<>>, diff_error |-> e.diff.stderr])
       ELSE ReturnObject(result @@ [diff |-> <<>>])

(***************************************************************************)
(* Inputs of the character-budget runs: diffs of a few long lines whose    *)
(* lengths sit around the budget and around half of it.                    *)
(***************************************************************************)
Half == max_diff_chars \div 2
LineLens == {0, 1, Half - 1, Half, max_diff_chars - 1, max_diff_chars, max_diff_chars + 1}
LineChars == <<"a", "b", "c", "d", "e">>

LineOf(n, c) == [i \in 1..n |-> c]

BigDiffs ==
  {<<>>} \cup
  UNION {{join([i \in 1..n |-> LineOf(f[i], LineChars[i])], NL) : f \in [1..n -> LineLens]}
         : n \in 1..MaxDiffLines}

\* git diff --name-status outputs: two modified files / no difference
TwoFiles == <<"M", TAB, "a", NL, "A", TAB, "b", NL>>
NoFiles == <<>>

\* An environment in which nothing fails: git answers with two changed
\* files and empty outputs, no template directory, no event log.
QuietEnv ==
  [roots |-> "one",
   name_status |-> Completed(0, TwoFiles, <<>>),
   stat |-> Completed(0, <<>>, <<>>),
   diff |-> Completed(0, <<>>, <<>>),
   log |-> Completed(0, <<>>, <<>>),
   templates |-> [exists |-> FALSE, listing |-> <<>>, unreadable |-> {}],
   events |-> [state |-> "missing", is_list |-> FALSE, items |-> <<>>]]

InitDiff ==
  /\ pc = "called"
  /\ ret = NoReturn
  /\ \E include_diff \in BOOLEAN :
       call = [server |-> "basic", tool |-> "analyze_file_changes",
               base_branch |-> "main", include_diff |-> include_diff]
  /\ \E ns \in {TwoFiles, NoFiles} :
     \E d \in {Completed(0, s, <<>>) : s \in BigDiffs} \cup {Completed(128, <<>>, <<"f">>)} :
       env = [QuietEnv EXCEPT !.name_status = Completed(0, ns, <<>>), !.diff = d]

BasicAnalyzeFileChanges ==
  /\ pc = "called"
  /\ call.server = "basic"
  /\ call.tool = "analyze_file_changes"
  /\ ret' = basic_analyze_file_changes(call.base_branch, call.include_diff, env)
  /\ pc' = "returned"
  /\ UNCHANGED <<call, env>>

NextDiff == BasicAnalyzeFileChanges

SpecDiff == InitDiff /\ [][NextDiff]_vars

(***************************************************************************)
(* C2, C3: character-budget truncation                                     *)
(***************************************************************************)
\* The call the two claims are about: include_diff true, at least one
\* changed file, git diff exit 0.
DiffReturned ==
  /\ pc = "returned"
  /\ call.server = "basic" /\ call.tool = "analyze_file_changes"
  /\ call.include_diff
  /\ ~env.diff.raises /\ env.diff.returncode = 0
  /\ ret.kind = "return" /\ ret.json = "object"
  /\ "total_files" \in DOMAIN ret.value
  /\ ret.value.total_files >= 1

\* C2: a diff longer than 20,000 characters comes back at most 20,000
\* characters long with diff_truncated true and original_diff_size the full
\* length; a diff of at most 20,000 characters comes back unchanged with
\* diff_truncated false.
C2_CharBudget ==
  DiffReturned =>
    /\ {"diff", "diff_truncated"} \subseteq DOMAIN ret.value
    /\ IF Len(env.diff.stdout) > 20000
       THEN /\ Len(ret.value.diff) <= 20000
            /\ ret.value.diff_truncated = TRUE
            /\ "original_diff_size" \in DOMAIN ret.value
            /\ ret.value.original_diff_size = Len(env.diff.stdout)
       ELSE /\ ret.value.diff_truncated = FALSE
            /\ ret.value.diff = env.diff.stdout

C2_Witness ==
  /\ DiffReturned
  /\ Len(env.diff.stdout) > 20000
  /\ ret.value.diff_truncated = TRUE
  /\ Len(ret.value.diff) > 0

\* accumulated size of the first k lines: each line's length plus one
RECURSIVE AccumulatedSize(_, _)
AccumulatedSize(lines, k) ==
  IF k = 0 THEN 0 ELSE AccumulatedSize(lines, k - 1) + Len(lines[k]) + 1

\* C3: when the diff is truncated, the returned diff is made of whole input
\* lines: exactly the longest prefix of the input's lines whose accumulated
\* size (length plus one per line) does not exceed 20,000.
C3_WholeLinePrefix ==
  (DiffReturned /\ Len(env.diff.stdout) > 20000) =>
    LET lines == split(env.diff.stdout, NL)
        fits == {k \in 0..Len(lines) : AccumulatedSize(lines, k) <= 20000}
        longest == CHOOSE k \in fits : \A j \in fits : j <= k
    IN ret.value.diff = join(SubSeq(lines, 1, longest), NL)

\* a truncation that keeps at least one whole line and drops at least one
C3_Witness ==
  /\ DiffReturned
  /\ Len(env.diff.stdout) > 20000
  /\ Len(ret.value.diff) >= 20000 - 1
  /\ Len(split(ret.value.diff, NL)) >= 2

(***************************************************************************)
(* actions server: analyze_file_changes (line-count truncation)            *)
(***************************************************************************)
Digit == <<"0", "1", "2", "3", "4", "5", "6", "7", "8", "9">>

\* str(n) for an int, as the f-string formats it
RECURSIVE digits(_)
digits(n) == IF n < 10 THEN <<Digit[n + 1]>>
             ELSE digits(n \div 10) \o <<Digit[(n % 10) + 1]>>

str_int(n) == IF n < 0 THEN <<"-">> \o digits(-n) ELSE digits(n)

\* lst[:n] -- a negative n counts from the end of the list
slice_to(lst, n) ==
  IF n >= 0 THEN SubSeq(lst, 1, IF n < Len(lst) THEN n ELSE Len(lst))
  ELSE SubSeq(lst, 1, IF Len(lst) + n > 0 THEN Len(lst) + n ELSE 0)

TruncatedShowing ==
  <<NL, NL, ".", ".", ".", SP, "O", "u", "t", "p", "u", "t", SP, "t", "r",
    "u", "n", "c", "a", "t", "e", "d", ".", SP, "S", "h", "o", "w", "i", "n",
    "g", SP>>
TruncatedOf ==
  <<SP, "o", "f", SP>>
TruncatedLines ==
  <<SP, "l", "i", "n", "e", "s", SP, ".", ".", ".">>
TruncatedHint ==
  <<NL, ".", ".", ".", SP, "U", "s", "e", SP, "m", "a", "x", "_", "d", "i",
    "f", "f", "_", "l", "i", "n", "e", "s", SP, "p", "a", "r", "a", "m", "e",
    "t", "e", "r", SP, "t", "o", SP, "s", "e", "e", SP, "m", "o", "r", "e",
    SP, ".", ".", ".">>
DiffNotIncluded ==
  <<"D", "i", "f", "f", SP, "n", "o", "t", SP, "i", "n", "c", "l", "u", "d",
    "e", "d", SP, "(", "s", "e", "t", SP, "i", "n", "c", "l", "u", "d", "e",
    "_", "d", "i", "f", "f", "=", "t", "r", "u", "e", SP, "t", "o", SP, "s",
    "e", "e", SP, "f", "u", "l", "l", SP, "d", "i", "f", "f", ")">>

\* lines 98-99: the two pieces appended after the kept lines
truncation_marker(max_diff_lines, total) ==
  TruncatedShowing \o str_int(max_diff_lines) \o TruncatedOf \o str_int(total)
    \o TruncatedLines \o TruncatedHint

\* lines 85-102: diff_content, truncated and diff_lines
line_limit(stdout, max_diff_lines) ==
  LET diff_lines == split(stdout, NL)
  IN IF Len(diff_lines) > max_diff_lines
     THEN [diff_content |-> join(slice_to(diff_lines, max_diff_lines), NL)
                              \o truncation_marker(max_diff_lines, Len(diff_lines)),
           truncated |-> TRUE,
           diff_lines |-> diff_lines]
     ELSE [diff_content |-> stdout, truncated |-> FALSE, diff_lines |-> diff_lines]

\* lines 68-126.  e.name_status, e.stat, e.diff and e.log are the outcomes
\* of the four git subprocesses; only the first runs with check=True.
actions_analyze_file_changes(base_branch, include_diff, max_diff_lines, e) ==
  IF e.name_status.raises THEN ReturnObject([error |-> Msg("", "FileNotFoundError")])
  ELSE IF e.name_status.returncode # 0
  THEN ReturnObject([error |-> Msg("Git error: ", e.name_status.stderr)])
  ELSE IF e.stat.raises THEN ReturnObject([error |-> Msg("", "FileNotFoundError")])
  ELSE IF include_diff /\ e.diff.raises
  THEN ReturnObject([error |-> Msg("", "FileNotFoundError")])
  ELSE IF e.log.raises THEN ReturnObject([error |-> Msg("", "FileNotFoundError")])
  ELSE
    LET limited == IF include_diff THEN line_limit(e.diff.stdout, max_diff_lines)
                   ELSE [diff_content |-> <<>>, truncated |-> FALSE, diff_lines |-> <<>>]
    IN ReturnObject(
         [base_branch |-> base_branch,
          files_changed |-> e.name_status.stdout,
          statistics |-> e.stat.stdout,
          commits |-> e.log.stdout,
          diff |-> IF include_diff THEN limited.diff_content ELSE DiffNotIncluded,
          truncated |-> limited.truncated,
          total_diff_lines |-> IF include_diff THEN Len(limited.diff_lines) ELSE 0])

ActionsAnalyzeFileChanges ==
  /\ pc = "called"
  /\ call.server = "actions"
  /\ call.tool = "analyze_file_changes"
  /\ ret' = actions_analyze_file_changes(call.base_branch, call.include_diff,
                                         call.max_diff_lines, env)
  /\ pc' = "returned"
  /\ UNCHANGED <<call, env>>

(***************************************************************************)
(* Inputs of the line-count runs: every text of at most MaxDiffChars       *)
(* characters over a letter and the newline, and limits from below zero    *)
(* to MaxLineLimit.                                                        *)
(***************************************************************************)
MaxDiffChars == 4
MaxLineLimit == 3

SmallDiffs == UNION {[1..n -> {"a", NL}] : n \in 0..MaxDiffChars}

InitLines ==
  /\ pc = "called"
  /\ ret = NoReturn
  /\ \E include_diff \in BOOLEAN, max_diff_lines \in (-2)..MaxLineLimit :
       call = [server |-> "actions", tool |-> "analyze_file_changes",
               base_branch |-> "main", include_diff |-> include_diff,
               max_diff_lines |-> max_diff_lines]
  /\ \E d \in {Completed(0, s, <<>>) : s \in SmallDiffs} :
       env = [QuietEnv EXCEPT !.diff = d]

NextLines == ActionsAnalyzeFileChanges

SpecLines == InitLines /\ [][NextLines]_vars

(***************************************************************************)
(* C4: line-count truncation                                               *)
(***************************************************************************)
LinesReturned ==
  /\ pc = "returned"
  /\ call.server = "actions" /\ call.tool = "analyze_file_changes"
  /\ call.include_diff
  /\ ret.kind = "return" /\ ret.json = "object"
  /\ "diff" \in DOMAIN ret.value

\* the first n elements of a list; none when n is not positive
FirstLines(lines, n) ==
  [i \in 1..(IF n < Len(lines) THEN n ELSE Len(lines)) |-> lines[i]]

\* C4: for every integer max_diff_lines N, a diff of more than N lines comes
\* back as exactly its first N lines followed by the marker "Showing N of
\* <total> lines" with truncated true; otherwise it comes back unchanged with
\* truncated false; total_diff_lines is the number of lines of the full diff.
C4_LineLimit ==
  LinesReturned =>
    LET lines == split(env.diff.stdout, NL)
        N == call.max_diff_lines
    IN /\ ret.value.total_diff_lines = Len(lines)
       /\ IF Len(lines) > N
          THEN /\ ret.value.truncated = TRUE
               /\ ret.value.diff = join(FirstLines(lines, N), NL)
                                     \o truncation_marker(N, Len(lines))
          ELSE /\ ret.value.truncated = FALSE
               /\ ret.value.diff = env.diff.stdout

(***************************************************************************)
(* More str primitives: lower(), the in operator, comparison, Path parts.  *)
(***************************************************************************)
UpperCase ==
  <<"A", "B", "C", "D", "E", "F", "G", "H", "I", "J", "K", "L", "M">>
    \o <<"N", "O", "P", "Q", "R", "S", "T", "U", "V", "W", "X", "Y", "Z">>
LowerCase ==
  <<"a", "b", "c", "d", "e", "f", "g", "h", "i", "j", "k", "l", "m">>
    \o <<"n", "o", "p", "q", "r", "s", "t", "u", "v", "w", "x", "y", "z">>
\* the characters of the model in code-point order
CodeOrder ==
  <<TAB, NL, "\r", SP, "#", "(", ")", "-", ".">> \o Digit \o <<"=">> \o UpperCase
    \o <<"_">> \o LowerCase

Ord(c) == CHOOSE i \in 1..Len(CodeOrder) : CodeOrder[i] = c

\* s.lower()
lower(s) ==
  [i \in 1..Len(s) |->
     IF \E k \in 1..Len(UpperCase) : UpperCase[k] = s[i]
     THEN LowerCase[CHOOSE k \in 1..Len(UpperCase) : UpperCase[k] = s[i]]
     ELSE s[i]]

\* a in b, for two str
contains(b, a) ==
  \E i \in 0..(Len(b) - Len(a)) : SubSeq(b, i + 1, i + Len(a)) = a

\* a < b, for two str: lexicographic by code point
str_less(a, b) ==
  \E i \in 1..(Len(a) + 1) :
    /\ i <= Len(b)
    /\ SubSeq(a, 1, i - 1) = SubSeq(b, 1, i - 1)
    /\ (i = Len(a) + 1 \/ Ord(a[i]) < Ord(b[i]))

\* s.endswith(suffix)
endswith(s, suffix) ==
  /\ Len(suffix) <= Len(s)
  /\ SubSeq(s, Len(s) - Len(suffix) + 1, Len(s)) = suffix

\* Path.stem: the file name without its last suffix
stem(name) ==
  LET dots == {i \in 1..Len(name) : name[i] = "."}
      i == IF dots = {} THEN 0 ELSE CHOOSE d \in dots : \A e \in dots : e <= d
  IN IF 1 < i /\ i < Len(name) THEN SubSeq(name, 1, i - 1) ELSE name

(***************************************************************************)
(* Template storage.  env.templates is the state of TEMPLATES_DIR: whether *)
(* the directory exists, the file names it holds in the order the          *)
(* directory is enumerated, and the files that cannot be read.             *)
(***************************************************************************)
bug_md == <<"b", "u", "g", ".", "m", "d">>
feature_md == <<"f", "e", "a", "t", "u", "r", "e", ".", "m", "d">>
docs_md == <<"d", "o", "c", "s", ".", "m", "d">>
refactor_md == <<"r", "e", "f", "a", "c", "t", "o", "r", ".", "m", "d">>
test_md == <<"t", "e", "s", "t", ".", "m", "d">>
performance_md == <<"p", "e", "r", "f", "o", "r", "m", "a", "n", "c", "e", ".", "m", "d">>
security_md == <<"s", "e", "c", "u", "r", "i", "t", "y", ".", "m", "d">>

dot_md == <<".", "m", "d">>

\* the text stored in a template file
template_text(filename) == <<"#", SP>> \o stem(filename)

path_exists(dir, filename) ==
  dir.exists /\ \E i \in 1..Len(dir.listing) : dir.listing[i] = filename

\* open(path).read() / Path.read_text(): raises unless the file is there
\* and readable
can_read(dir, filename) == path_exists(dir, filename) /\ filename \notin dir.unreadable

\* TEMPLATES_DIR.glob("*.md"), in enumeration order
glob_md(dir) == SelectSeq(dir.listing, LAMBDA f : endswith(f, dot_md))

(***************************************************************************)
(* basic server: get_pr_templates                                          *)
(***************************************************************************)
\* lines 127-148: the entry of one template file
template_entry(dir, template_file) ==
  IF can_read(dir, template_file)
  THEN [filename |-> template_file,
        name |-> stem(template_file),
        type |-> stem(template_file),
        content |-> template_text(template_file)]
  ELSE [filename |-> template_file,
        name |-> stem(template_file),
        type |-> stem(template_file),
        error |-> Msg("Failed to read template: ", "OSError")]

\* line 151: templates.sort(key=lambda x: x.get('name', '')), a stable sort
RECURSIVE sort_by_name(_)
sort_by_name(templates) ==
  IF templates = <<>> THEN <<>>
  ELSE LET n == Len(templates)
           x == templates[n]
           sorted == sort_by_name(SubSeq(templates, 1, n - 1))
           before == {i \in 1..Len(sorted) : ~str_less(x.name, sorted[i].name)}
           k == Cardinality(before)
       IN SubSeq(sorted, 1, k) \o <<x>> \o SubSeq(sorted, k + 1, Len(sorted))

\* lines 115-159
basic_get_pr_templates(e) ==
  IF ~e.templates.exists
  THEN ReturnObject([error |-> Msg("Templates directory not found: ", "TEMPLATES_DIR"),
                     templates |-> <<>>])
  ELSE LET files == glob_md(e.templates)
           templates == [i \in 1..Len(files) |-> template_entry(e.templates, files[i])]
       IN ReturnArray(sort_by_name(templates))

BasicGetPrTemplates ==
  /\ pc = "called"
  /\ call.server = "basic"
  /\ call.tool = "get_pr_templates"
  /\ ret' = basic_get_pr_templates(env)
  /\ pc' = "returned"
  /\ UNCHANGED <<call, env>>

(***************************************************************************)
(* actions server: get_pr_templates                                        *)
(***************************************************************************)
DEFAULT_TEMPLATES ==
  <<[filename |-> bug_md,
     type |-> <<"B", "u", "g", SP, "F", "i", "x">>],
    [filename |-> feature_md,
     type |-> <<"F", "e", "a", "t", "u", "r", "e">>],
    [filename |-> docs_md,
     type |-> <<"D", "o", "c", "u", "m", "e", "n", "t", "a", "t", "i", "o", "n">>],
    [filename |-> refactor_md,
     type |-> <<"R", "e", "f", "a", "c", "t", "o", "r">>],
    [filename |-> test_md,
     type |-> <<"T", "e", "s", "t">>],
    [filename |-> performance_md,
     type |-> <<"P", "e", "r", "f", "o", "r", "m", "a", "n", "c", "e">>],
    [filename |-> security_md,
     type |-> <<"S", "e", "c", "u", "r", "i", "t", "y">>]>>

\* lines 132-141: read_text() of every declared template, in declaration
\* order; nothing catches the exception of a file that cannot be read
actions_get_pr_templates(e) ==
  IF \E i \in 1..Len(DEFAULT_TEMPLATES) :
       ~can_read(e.templates, DEFAULT_TEMPLATES[i].filename)
  THEN Raise("OSError")
  ELSE ReturnArray([i \in 1..Len(DEFAULT_TEMPLATES) |->
                     [filename |-> DEFAULT_TEMPLATES[i].filename,
                      type |-> DEFAULT_TEMPLATES[i].type,
                      content |-> template_text(DEFAULT_TEMPLATES[i].filename)]])

ActionsGetPrTemplates ==
  /\ pc = "called"
  /\ call.server = "actions"
  /\ call.tool = "get_pr_templates"
  /\ ret' = actions_get_pr_templates(env)
  /\ pc' = "returned"
  /\ UNCHANGED <<call, env>>

(***************************************************************************)
(* basic server: suggest_template                                          *)
(***************************************************************************)
\* lines 172-192, in declaration order
template_mappings ==
  <<[key |-> <<"b", "u", "g">>,
     file |-> bug_md],
    [key |-> <<"b", "u", "g", "f", "i", "x">>,
     file |-> bug_md],
    [key |-> <<"f", "i", "x">>,
     file |-> bug_md],
    [key |-> <<"f", "e", "a", "t", "u", "r", "e">>,
     file |-> feature_md],
    [key |-> <<"f", "e", "a", "t">>,
     file |-> feature_md],
    [key |-> <<"e", "n", "h", "a", "n", "c", "e", "m", "e", "n", "t">>,
     file |-> feature_md],
    [key |-> <<"d", "o", "c", "s">>,
     file |-> docs_md],
    [key |-> <<"d", "o", "c", "u", "m", "e", "n", "t", "a", "t", "i", "o", "n">>,
     file |-> docs_md],
    [key |-> <<"d", "o", "c">>,
     file |-> docs_md],
    [key |-> <<"r", "e", "f", "a", "c", "t", "o", "r">>,
     file |-> refactor_md],
    [key |-> <<"r", "e", "f", "a", "c", "t", "o", "r", "i", "n", "g">>,
     file |-> refactor_md],
    [key |-> <<"t", "e", "s", "t">>,
     file |-> test_md],
    [key |-> <<"t", "e", "s", "t", "s">>,
     file |-> test_md],
    [key |-> <<"t", "e", "s", "t", "i", "n", "g">>,
     file |-> test_md],
    [key |-> <<"p", "e", "r", "f", "o", "r", "m", "a", "n", "c", "e">>,
     file |-> performance_md],
    [key |-> <<"p", "e", "r", "f">>,
     file |-> performance_md],
    [key |-> <<"o", "p", "t", "i", "m", "i", "z", "a", "t", "i", "o", "n">>,
     file |-> performance_md],
    [key |-> <<"s", "e", "c", "u", "r", "i", "t", "y">>,
     file |-> security_md],
    [key |-> <<"s", "e", "c">>,
     file |-> security_md]>>

\* dict.get(key): the index of the entry with that key, 0 when absent
lookup(mapping, key) ==
  IF \E i \in 1..Len(mapping) : mapping[i].key = key
  THEN CHOOSE i \in 1..Len(mapping) : mapping[i].key = key
  ELSE 0

\* lines 202-205: the first key, in declaration order, that contains the
\* normalized type or is contained in it; 0 when there is none
partial_match_one_way(normalized_type) ==
  LET hits == {i \in 1..Len(template_mappings) :
                 contains(normalized_type, template_mappings[i].key)}
  IN IF hits = {} THEN 0 ELSE CHOOSE i \in hits : \A j \in hits : i <= j

partial_match_last(normalized_type) ==
  LET hits == {i \in 1..Len(template_mappings) :
                 \/ contains(normalized_type, template_mappings[i].key)
                 \/ contains(template_mappings[i].key, normalized_type)}
  IN IF hits = {} THEN 0 ELSE CHOOSE i \in hits : \A j \in hits : j <= i

partial_match(normalized_type) ==
  LET hits == {i \in 1..Len(template_mappings) :
                 \/ contains(normalized_type, template_mappings[i].key)
                 \/ contains(template_mappings[i].key, normalized_type)}
  IN IF hits = {} THEN 0 ELSE CHOOSE i \in hits : \A j \in hits : i <= j

\* lines 195-212: the template file chosen for a change type
resolve_template(change_type) ==
  LET normalized_type == strip(lower(change_type))
      exact == lookup(template_mappings, normalized_type)
      found == IF exact # 0 THEN exact ELSE partial_match(normalized_type)
  IN IF found = 0
     THEN [suggested_template_file |-> feature_md, fallback_used |-> TRUE]
     ELSE [suggested_template_file |-> template_mappings[found].file,
           fallback_used |-> FALSE]

\* lines 170-254
basic_suggest_template(changes_summary, change_type, e) ==
  LET resolved == resolve_template(change_type)
      suggested_template_file == resolved.suggested_template_file
  IN IF path_exists(e.templates, suggested_template_file)
     THEN IF can_read(e.templates, suggested_template_file)
          THEN ReturnObject(
                 [recommended_template |-> suggested_template_file,
                  template_type |-> stem(suggested_template_file),
                  template_content |-> template_text(suggested_template_file),
                  changes_summary |-> changes_summary,
                  detected_change_type |-> change_type,
                  fallback_used |-> resolved.fallback_used]
                 @@ (IF resolved.fallback_used
                     THEN [note |-> Msg("No specific template found for ", change_type)]
                     ELSE <<>>))
          ELSE ReturnObject(
                 [error |-> Msg("Failed to read template file ", suggested_template_file),
                  recommended_template |-> suggested_template_file,
                  template_type |-> stem(suggested_template_file)])
     ELSE ReturnObject(
            [error |-> Msg("Template file not found: ", suggested_template_file),
             available_templates |->
               [i \in 1..Len(template_mappings) |-> template_mappings[i].file],
             detected_change_type |-> change_type])

BasicSuggestTemplate ==
  /\ pc = "called"
  /\ call.server = "basic"
  /\ call.tool = "suggest_template"
  /\ ret' = basic_suggest_template(call.changes_summary, call.change_type, env)
  /\ pc' = "returned"
  /\ UNCHANGED <<call, env>>

(***************************************************************************)
(* actions server: suggest_template                                        *)
(***************************************************************************)
\* lines 36-50, in declaration order
TYPE_MAPPING ==
  <<[key |-> <<"b", "u", "g">>,
     file |-> bug_md],
    [key |-> <<"f", "i", "x">>,
     file |-> bug_md],
    [key |-> <<"f", "e", "a", "t", "u", "r", "e">>,
     file |-> feature_md],
    [key |-> <<"e", "n", "h", "a", "n", "c", "e", "m", "e", "n", "t">>,
     file |-> feature_md],
    [key |-> <<"d", "o", "c", "s">>,
     file |-> docs_md],
    [key |-> <<"d", "o", "c", "u", "m", "e", "n", "t", "a", "t", "i", "o", "n">>,
     file |-> docs_md],
    [key |-> <<"r", "e", "f", "a", "c", "t", "o", "r">>,
     file |-> refactor_md],
    [key |-> <<"c", "l", "e", "a", "n", "u", "p">>,
     file |-> refactor_md],
    [key |-> <<"t", "e", "s", "t">>,
     file |-> test_md],
    [key |-> <<"t", "e", "s", "t", "i", "n", "g">>,
     file |-> test_md],
    [key |-> <<"p", "e", "r", "f", "o", "r", "m", "a", "n", "c", "e">>,
     file |-> performance_md],
    [key |-> <<"o", "p", "t", "i", "m", "i", "z", "a", "t", "i", "o", "n">>,
     file |-> performance_md],
    [key |-> <<"s", "e", "c", "u", "r", "i", "t", "y">>,
     file |-> security_md]>>

\* line 158: TYPE_MAPPING.get(change_type.lower(), "feature.md")
type_mapping_get(change_type) ==
  LET found == lookup(TYPE_MAPPING, lower(change_type))
  IN IF found = 0 THEN feature_md ELSE TYPE_MAPPING[found].file

\* lines 154-171: the listing is produced by this server's get_pr_templates,
\* whose exception is not caught here either
actions_suggest_template(changes_summary, change_type, e) ==
  LET templates_response == actions_get_pr_templates(e)
  IN IF templates_response.kind = "raise" THEN templates_response
     ELSE LET templates == templates_response.value
              template_file == type_mapping_get(change_type)
              matching == {i \in 1..Len(templates) : templates[i].filename = template_file}
              selected_template ==
                IF matching = {} THEN templates[1]
                ELSE templates[CHOOSE i \in matching : \A j \in matching : i <= j]
          IN ReturnObject(
               [recommended_template |-> selected_template,
                reasoning |-> <<"Based on your analysis: ", changes_summary, change_type>>,
                template_content |-> selected_template.content,
                usage_hint |-> "Claude can help you fill out this template based on the specific changes in your PR."])

ActionsSuggestTemplate ==
  /\ pc = "called"
  /\ call.server = "actions"
  /\ call.tool = "suggest_template"
  /\ ret' = actions_suggest_template(call.changes_summary, call.change_type, env)
  /\ pc' = "returned"
  /\ UNCHANGED <<call, env>>

(***************************************************************************)
(* Inputs of the template runs.                                            *)
(***************************************************************************)
MaxFiles == 3
MaxTypeLen == 3

\* s.upper(), used to build inputs only
upper(s) ==
  [i \in 1..Len(s) |->
     IF \E k \in 1..Len(LowerCase) : LowerCase[k] = s[i]
     THEN UpperCase[CHOOSE k \in 1..Len(LowerCase) : LowerCase[k] = s[i]]
     ELSE s[i]]

\* file names a template directory may hold
FileNames ==
  {bug_md, docs_md, feature_md, <<"Z", ".", "m", "d">>, <<"n", ".", "t", "x", "t">>}

Arrangements(S, n) ==
  {f \in [1..n -> S] : \A i, j \in 1..n : i # j => f[i] # f[j]}

Range(f) == {f[i] : i \in DOMAIN f}

\* directories of at most MaxFiles files, in every enumeration order, with
\* every choice of unreadable files
SmallDirs ==
  UNION {{[exists |-> TRUE, listing |-> l, unreadable |-> u] : u \in SUBSET Range(l)}
         : l \in UNION {Arrangements(FileNames, n) : n \in 0..MaxFiles}}

DefaultListing == [i \in 1..Len(DEFAULT_TEMPLATES) |-> DEFAULT_TEMPLATES[i].filename]

\* the seven declared templates: all there, one missing, or one unreadable
FullDirs ==
  {[exists |-> TRUE, listing |-> DefaultListing, unreadable |-> {}]}
  \cup {[exists |-> TRUE, listing |-> DefaultListing, unreadable |-> {f}] :
          f \in Range(DefaultListing)}
  \cup {[exists |-> TRUE, listing |-> SelectSeq(DefaultListing, LAMBDA g : g # f),
         unreadable |-> {}] : f \in Range(DefaultListing)}

MissingDir == [exists |-> FALSE, listing |-> <<>>, unreadable |-> {}]

InitTemplates ==
  /\ pc = "called"
  /\ ret = NoReturn
  /\ \E server \in {"basic", "actions"} :
       call = [server |-> server, tool |-> "get_pr_templates"]
  /\ \E d \in SmallDirs \cup FullDirs \cup {MissingDir} :
       env = [QuietEnv EXCEPT !.templates = d]

NextTemplates == BasicGetPrTemplates \/ ActionsGetPrTemplates

SpecTemplates == InitTemplates /\ [][NextTemplates]_vars

\* change types: every string of at most MaxTypeLen characters over a small
\* alphabet, and a list of words in several letter cases and paddings
TypeAlphabet == {"b", "u", "g", "G", SP, "z"}

ShortTypes == UNION {[1..n -> TypeAlphabet] : n \in 0..MaxTypeLen}

Words ==
  {template_mappings[i].key : i \in 1..Len(template_mappings)}
  \cup {TYPE_MAPPING[i].key : i \in 1..Len(TYPE_MAPPING)}
  \cup {<<"s", "o", "m", "e", "t", "h", "i", "n", "g", "-", "u", "n", "r", "e", "c",
          "o", "g", "n", "i", "z", "e", "d">>,
        <<"h", "o", "t", "f", "i", "x">>,
        <<"d", "o", "c", "s", "-", "f", "e", "a", "t", "u", "r", "e">>,
        <<"t", "e", "s", "t", "d", "o", "c">>,
        <<"e">>,
        <<"x", "y">>}

Decorated(w) ==
  {w, upper(w), <<SP>> \o w, w \o <<SP>>, <<TAB>> \o upper(w) \o <<NL>>}

ChangeTypes == ShortTypes \cup UNION {Decorated(w) : w \in Words}

InitSuggest ==
  /\ pc = "called"
  /\ ret = NoReturn
  /\ \E server \in {"basic", "actions"}, change_type \in ChangeTypes :
       call = [server |-> server, tool |-> "suggest_template",
               changes_summary |-> "Fixed null pointer", change_type |-> change_type]
  /\ \E d \in FullDirs \cup {MissingDir} :
       env = [QuietEnv EXCEPT !.templates = d]

NextSuggest == BasicSuggestTemplate \/ ActionsSuggestTemplate

SpecSuggest == InitSuggest /\ [][NextSuggest]_vars

(***************************************************************************)
(* C5 - C8: template resolution                                            *)
(***************************************************************************)
\* a suggest_template call that returned with every declared template in
\* place and readable
Suggested(server) ==
  /\ pc = "returned"
  /\ call.server = server /\ call.tool = "suggest_template"
  /\ \A i \in 1..Len(DEFAULT_TEMPLATES) : can_read(env.templates, DEFAULT_TEMPLATES[i].filename)
  /\ ret.kind = "return" /\ ret.json = "object"
  /\ "recommended_template" \in DOMAIN ret.value

\* the file name of the template a returned suggestion recommends
RecommendedFile(server, r) ==
  IF server = "basic" THEN r.value.recommended_template
  ELSE r.value.recommended_template.filename

BugWords == {<<"b", "u", "g", "f", "i", "x">>, <<"f", "i", "x">>, <<"b", "u", "g">>}

\* C5: change_type "bugfix", "fix" or "bug" in any letter case resolves to
\* bug.md in the basic and in the actions server; in the basic server
\* fallback_used is false.
C5_BugSynonyms ==
  \A server \in {"basic", "actions"} :
    (Suggested(server) /\ lower(call.change_type) \in BugWords) =>
      /\ RecommendedFile(server, ret) = bug_md
      /\ server = "basic" => ret.value.fallback_used = FALSE

\* the keys of the synonym table in their declaration order
DeclaredKeys ==
  <<<<"b", "u", "g">>,
    <<"b", "u", "g", "f", "i", "x">>,
    <<"f", "i", "x">>,
    <<"f", "e", "a", "t", "u", "r", "e">>,
    <<"f", "e", "a", "t">>,
    <<"e", "n", "h", "a", "n", "c", "e", "m", "e", "n", "t">>,
    <<"d", "o", "c", "s">>,
    <<"d", "o", "c", "u", "m", "e", "n", "t", "a", "t", "i", "o", "n">>,
    <<"d", "o", "c">>,
    <<"r", "e", "f", "a", "c", "t", "o", "r">>,
    <<"r", "e", "f", "a", "c", "t", "o", "r", "i", "n", "g">>,
    <<"t", "e", "s", "t">>,
    <<"t", "e", "s", "t", "s">>,
    <<"t", "e", "s", "t", "i", "n", "g">>,
    <<"p", "e", "r", "f", "o", "r", "m", "a", "n", "c", "e">>,
    <<"p", "e", "r", "f">>,
    <<"o", "p", "t", "i", "m", "i", "z", "a", "t", "i", "o", "n">>,
    <<"s", "e", "c", "u", "r", "i", "t", "y">>,
    <<"s", "e", "c">>>>

\* the template the synonym table maps a key to
TemplateOf(key) == template_mappings[lookup(template_mappings, key)].file

\* the keys related to a normalized type: equal to it, inside it or around it
RelatedKeys(normalized) ==
  {i \in 1..Len(DeclaredKeys) :
     \/ DeclaredKeys[i] = normalized
     \/ contains(normalized, DeclaredKeys[i])
     \/ contains(DeclaredKeys[i], normalized)}

\* C6: in the basic server fallback_used is true and the template is
\* feature.md exactly when the normalized change_type equals no synonym key,
\* contains none and is contained in none; otherwise fallback_used is false
\* and the template is a value of the synonym table.
C6_FallbackExactly ==
  Suggested("basic") =>
    IF RelatedKeys(strip(lower(call.change_type))) = {}
    THEN /\ ret.value.fallback_used = TRUE
         /\ ret.value.recommended_template = feature_md
    ELSE /\ ret.value.fallback_used = FALSE
         /\ \E i \in 1..Len(DeclaredKeys) :
              ret.value.recommended_template = TemplateOf(DeclaredKeys[i])

\* an unrecognized type of more than three characters that fell back
C6_Witness ==
  /\ Suggested("basic")
  /\ RelatedKeys(strip(lower(call.change_type))) = {}
  /\ Len(call.change_type) > 3
  /\ ret.value.fallback_used = TRUE

\* C7: in the basic server a normalized change_type with no exact match
\* resolves to the template of the first key, in declaration order, that is
\* a substring of it or has it as a substring; an exact match wins over any
\* earlier substring match.
C7_FirstDeclaredWins ==
  Suggested("basic") =>
    LET normalized == strip(lower(call.change_type))
        related == RelatedKeys(normalized)
        first == CHOOSE i \in related : \A j \in related : i <= j
    IN /\ (\E i \in related : DeclaredKeys[i] = normalized)
            => ret.value.recommended_template = TemplateOf(normalized)
       /\ (related # {} /\ \A i \in related : DeclaredKeys[i] # normalized)
            => ret.value.recommended_template = TemplateOf(DeclaredKeys[first])

\* a type with no exact match whose related keys map to different templates
C7_Witness ==
  /\ Suggested("basic")
  /\ LET normalized == strip(lower(call.change_type))
         related == RelatedKeys(normalized)
     IN /\ \A i \in related : DeclaredKeys[i] # normalized
        /\ \E i, j \in related : TemplateOf(DeclaredKeys[i]) # TemplateOf(DeclaredKeys[j])
        /\ ret.value.fallback_used = FALSE

\* C8: in both servers a change_type resolves to the same template as its
\* trimmed, lowercased form.
C8_Normalized ==
  \A server \in {"basic", "actions"} :
    Suggested(server) =>
      LET normalized == strip(lower(call.change_type))
          again == IF server = "basic"
                   THEN basic_suggest_template(call.changes_summary, normalized, env)
                   ELSE actions_suggest_template(call.changes_summary, normalized, env)
      IN RecommendedFile(server, ret) = RecommendedFile(server, again)

\* the same for the basic server alone
C8_NormalizedBasic ==
  Suggested("basic") =>
    RecommendedFile("basic", ret) =
      RecommendedFile("basic", basic_suggest_template(call.changes_summary,
                                 strip(lower(call.change_type)), env))

(***************************************************************************)
(* C9, C10: the template listing                                           *)
(***************************************************************************)
Listed(server) ==
  /\ pc = "returned"
  /\ call.server = server /\ call.tool = "get_pr_templates"

\* the name of a listed template: its name field, else its file's stem
TemplateName(entry) ==
  IF "name" \in DOMAIN entry THEN entry.name ELSE stem(entry.filename)

\* C9: in both servers the entries get_pr_templates returns are sorted by
\* template name: no entry's name is greater than the next entry's.
C9_SortedByName ==
  \A server \in {"basic", "actions"} :
    (Listed(server) /\ ret.kind = "return" /\ ret.json = "array") =>
      \A i \in 1..(Len(ret.value) - 1) :
        ~str_less(TemplateName(ret.value[i + 1]), TemplateName(ret.value[i]))

\* the same for the basic server alone
C9_SortedByNameBasic ==
  (Listed("basic") /\ ret.kind = "return" /\ ret.json = "array") =>
    \A i \in 1..(Len(ret.value) - 1) :
      ~str_less(ret.value[i + 1].name, ret.value[i].name)

\* the templates a server lists: the .md files found (basic), the declared
\* ones (actions)
Expected(server) ==
  IF server = "basic" THEN Range(glob_md(env.templates)) ELSE Range(DefaultListing)

\* C10: in both servers, with the template directory missing
\* get_pr_templates returns an error field and an empty template list and
\* does not raise; a single unreadable template is reported as an inline
\* error entry and the other templates are still listed.
C10_MissingOrUnreadable ==
  \A server \in {"basic", "actions"} :
    Listed(server) =>
      /\ ~env.templates.exists =>
           /\ ret.kind = "return" /\ ret.json = "object"
           /\ "error" \in DOMAIN ret.value
           /\ "templates" \in DOMAIN ret.value /\ ret.value.templates = <<>>
      /\ \A f \in Expected(server) :
           (env.templates.exists /\ env.templates.unreadable = {f}
              /\ \A g \in Expected(server) : path_exists(env.templates, g)) =>
             /\ ret.kind = "return" /\ ret.json = "array"
             /\ \A g \in Expected(server) :
                  \E i \in 1..Len(ret.value) :
                    /\ ret.value[i].filename = g
                    /\ IF g = f THEN "error" \in DOMAIN ret.value[i]
                       ELSE "content" \in DOMAIN ret.value[i]

\* the same for the basic server alone
C10_MissingOrUnreadableBasic ==
  Listed("basic") =>
    /\ ~env.templates.exists =>
         /\ ret.kind = "return" /\ ret.json = "object"
         /\ "error" \in DOMAIN ret.value
         /\ "templates" \in DOMAIN ret.value /\ ret.value.templates = <<>>
    /\ \A f \in Expected("basic") :
         (env.templates.exists /\ env.templates.unreadable = {f}) =>
           /\ ret.kind = "return" /\ ret.json = "array"
           /\ \A g \in Expected("basic") :
                \E i \in 1..Len(ret.value) :
                  /\ ret.value[i].filename = g
                  /\ IF g = f THEN "error" \in DOMAIN ret.value[i]
                     ELSE "content" \in DOMAIN ret.value[i]

(***************************************************************************)
(* actions server: the event log tools.  env.events is the state of        *)
(* EVENTS_FILE: missing, unreadable, malformed (not JSON) or loaded; a     *)
(* loaded log is a list of items or some other JSON value.  An item is a   *)
(* dict (is_dict, with its keys in d) or another JSON value; so is the     *)
(* payload of an event.                                                    *)
(***************************************************************************)
\* dict.get(key, default)
get(d, key, default) == IF key \in DOMAIN d THEN d[key] ELSE default

\* lines 183-208
get_recent_actions_events(limit, e) ==
  IF e.events.state = "missing"
  THEN ReturnObject([events |-> <<>>, message |-> "No events file found"])
  ELSE IF e.events.state = "unreadable"
  THEN ReturnObject([error |-> Msg("Error reading events: ", "OSError")])
  ELSE IF e.events.state = "malformed"
  THEN ReturnObject([error |-> Msg("Invalid JSON in events file: ", "JSONDecodeError")])
  ELSE LET events == e.events.items
           recent_events == IF e.events.is_list THEN slice_to(events, limit) ELSE <<>>
       IN ReturnObject([events |-> recent_events,
                        total_events |-> IF e.events.is_list THEN Len(events) ELSE 0,
                        showing |-> Len(recent_events)])

GetRecentActionsEvents ==
  /\ pc = "called"
  /\ call.server = "actions"
  /\ call.tool = "get_recent_actions_events"
  /\ ret' = get_recent_actions_events(call.limit, env)
  /\ pc' = "returned"
  /\ UNCHANGED <<call, env>>

\* lines 230-233: the workflow_run events of the log, in log order
workflow_run_events(events) ==
  SelectSeq(events, LAMBDA event : event.is_dict /\ get(event.d, "type", "None") = "workflow_run")

\* line 238: some payload of a workflow_run event is not a dict, so that
\* .get on it raises
bad_payload(workflow_events) ==
  \E i \in 1..Len(workflow_events) :
    /\ "payload" \in DOMAIN workflow_events[i].d
    /\ ~workflow_events[i].d.payload.is_dict

\* lines 252-260: the entry built from one event's workflow data
workflow_entry(wf_name, workflow_data, event_time) ==
  [name |-> wf_name,
   status |-> get(workflow_data, "status", "unknown"),
   conclusion |-> get(workflow_data, "conclusion", "None"),
   updated_at |-> event_time,
   head_branch |-> get(workflow_data, "head_branch", "unknown"),
   html_url |-> get(workflow_data, "html_url", ""),
   run_number |-> get(workflow_data, "run_number", 0)]

\* lines 236-260: the loop over the workflow_run events; workflow_name ""
\* stands for None (and for the empty string, which filters nothing either)
RECURSIVE group_latest_ge(_, _, _)
group_latest_ge(workflow_events, workflows, workflow_name) ==
  IF workflow_events = <<>> THEN workflows
  ELSE
    LET event == Head(workflow_events)
        payload == IF "payload" \in DOMAIN event.d THEN event.d.payload.d ELSE <<>>
        workflow_data == get(payload, "workflow_run", <<>>)
        wf_name == get(workflow_data, "name", "Unknown")
        event_time == get(workflow_data, "updated_at", get(workflow_data, "created_at", <<>>))
        rest == Tail(workflow_events)
    IN IF DOMAIN workflow_data = {} THEN group_latest_ge(rest, workflows, workflow_name)
       ELSE IF workflow_name # "" /\ wf_name # workflow_name
       THEN group_latest_ge(rest, workflows, workflow_name)
       ELSE IF wf_name \notin DOMAIN workflows
               \/ ~str_less(event_time, workflows[wf_name].updated_at)
       THEN group_latest_ge(rest,
                         [n \in DOMAIN workflows \cup {wf_name} |->
                            IF n = wf_name
                            THEN workflow_entry(wf_name, workflow_data, event_time)
                            ELSE workflows[n]],
                         workflow_name)
       ELSE group_latest_ge(rest, workflows, workflow_name)

RECURSIVE group_latest(_, _, _)
group_latest(workflow_events, workflows, workflow_name) ==
  IF workflow_events = <<>> THEN workflows
  ELSE
    LET event == Head(workflow_events)
        payload == IF "payload" \in DOMAIN event.d THEN event.d.payload.d ELSE <<>>
        workflow_data == get(payload, "workflow_run", <<>>)
        wf_name == get(workflow_data, "name", "Unknown")
        event_time == get(workflow_data, "updated_at", get(workflow_data, "created_at", <<>>))
        rest == Tail(workflow_events)
    IN IF DOMAIN workflow_data = {} THEN group_latest(rest, workflows, workflow_name)
       ELSE IF workflow_name # "" /\ wf_name # workflow_name
       THEN group_latest(rest, workflows, workflow_name)
       ELSE IF wf_name \notin DOMAIN workflows
               \/ str_less(workflows[wf_name].updated_at, event_time)
       THEN group_latest(rest,
                         [n \in DOMAIN workflows \cup {wf_name} |->
                            IF n = wf_name
                            THEN workflow_entry(wf_name, workflow_data, event_time)
                            ELSE workflows[n]],
                         workflow_name)
       ELSE group_latest(rest, workflows, workflow_name)

\* lines 218-273
get_workflow_status(workflow_name, e) ==
  IF e.events.state = "missing"
  THEN ReturnObject([workflows |-> <<>>, message |-> "No events file found"])
  ELSE IF e.events.state = "unreadable"
  THEN ReturnObject([error |-> Msg("Error reading workflow status: ", "OSError")])
  ELSE IF e.events.state = "malformed"
  THEN ReturnObject([error |-> Msg("Invalid JSON in events file: ", "JSONDecodeError")])
  ELSE IF ~e.events.is_list
  THEN ReturnObject([workflows |-> <<>>, message |-> "Invalid events format"])
  ELSE LET workflow_events == workflow_run_events(e.events.items)
       IN IF bad_payload(workflow_events)
          THEN ReturnObject([error |-> Msg("Error reading workflow status: ",
                                            "AttributeError")])
          ELSE LET workflows == group_latest(workflow_events, <<>>, workflow_name)
               IN ReturnObject(
                    [workflows |-> workflows,
                     total_workflows |-> Cardinality(DOMAIN workflows),
                     filtered_by |-> IF workflow_name # "" THEN workflow_name
                                     ELSE "all workflows"])

GetWorkflowStatus ==
  /\ pc = "called"
  /\ call.server = "actions"
  /\ call.tool = "get_workflow_status"
  /\ ret' = get_workflow_status(call.workflow_name, env)
  /\ pc' = "returned"
  /\ UNCHANGED <<call, env>>

(***************************************************************************)
(* Inputs of the event log runs.                                           *)
(***************************************************************************)
MaxEvents == 2

Dict(d) == [is_dict |-> TRUE, d |-> d]
NotDict == [is_dict |-> FALSE, d |-> <<>>]

WorkflowRun(data) ==
  Dict([type |-> "workflow_run", payload |-> Dict([workflow_run |-> data])])

EventPool ==
  {NotDict,
   Dict([type |-> "push", payload |-> Dict(<<>>)]),
   Dict([type |-> "workflow_run", payload |-> NotDict]),
   Dict([type |-> "workflow_run"]),
   WorkflowRun([name |-> "CI", status |-> "completed", conclusion |-> "success",
                updated_at |-> <<"2">>, created_at |-> <<"1">>]),
   WorkflowRun([name |-> "CI", status |-> "in_progress", created_at |-> <<"3">>]),
   WorkflowRun([name |-> "Deploy", status |-> "queued", updated_at |-> <<"1">>]),
   WorkflowRun([status |-> "queued"])}

EventLogs ==
  {[state |-> s, is_list |-> FALSE, items |-> <<>>] :
     s \in {"missing", "unreadable", "malformed", "loaded"}}
  \cup {[state |-> "loaded", is_list |-> TRUE, items |-> l] :
          l \in UNION {[1..n -> EventPool] : n \in 0..MaxEvents}}

(***************************************************************************)
(* The servers: one call of any tool, in any environment of the sets       *)
(* below.                                                                  *)
(***************************************************************************)
GitOutcomes(outputs) ==
  {Completed(0, s, <<>>) : s \in outputs}
  \cup {Completed(128, <<>>, <<"f", "a", "t", "a", "l">>), Unavailable}

TinyDiffs == {<<>>, <<"a", NL>>, <<"a", NL, "b", NL, "c">>}

InitCalls ==
  \/ /\ \E server \in {"basic", "actions"} :
          call = [server |-> server, tool |-> "get_pr_templates"]
     /\ \E d \in FullDirs \cup {MissingDir} :
          env = [QuietEnv EXCEPT !.templates = d]
  \/ /\ \E server \in {"basic", "actions"}, change_type \in Words :
          call = [server |-> server, tool |-> "suggest_template",
                  changes_summary |-> "Fixed null pointer", change_type |-> change_type]
     /\ \E d \in FullDirs \cup {MissingDir} :
          env = [QuietEnv EXCEPT !.templates = d]
  \/ /\ \E include_diff \in BOOLEAN :
          call = [server |-> "basic", tool |-> "analyze_file_changes",
                  base_branch |-> "main", include_diff |-> include_diff]
     /\ \E roots \in {"raises", "none", "one"},
           ns \in GitOutcomes({TwoFiles, NoFiles}),
           d \in GitOutcomes(TinyDiffs) :
          env = [QuietEnv EXCEPT !.roots = roots, !.name_status = ns, !.diff = d]
  \/ /\ \E include_diff \in BOOLEAN, max_diff_lines \in (-1)..MaxLineLimit :
          call = [server |-> "actions", tool |-> "analyze_file_changes",
                  base_branch |-> "main", include_diff |-> include_diff,
                  max_diff_lines |-> max_diff_lines]
     /\ \E ns \in GitOutcomes({TwoFiles}), st \in GitOutcomes({<<>>}),
           d \in GitOutcomes(TinyDiffs), lg \in GitOutcomes({<<>>}) :
          env = [QuietEnv EXCEPT !.name_status = ns, !.stat = st, !.diff = d, !.log = lg]
  \/ /\ \E limit \in (-1)..MaxEvents :
          call = [server |-> "actions", tool |-> "get_recent_actions_events",
                  limit |-> limit]
     /\ \E ev \in EventLogs : env = [QuietEnv EXCEPT !.events = ev]
  \/ /\ \E workflow_name \in {"", "CI"} :
          call = [server |-> "actions", tool |-> "get_workflow_status",
                  workflow_name |-> workflow_name]
     /\ \E ev \in EventLogs : env = [QuietEnv EXCEPT !.events = ev]

Init ==
  /\ pc = "called"
  /\ ret = NoReturn
  /\ InitCalls

Next ==
  \/ BasicAnalyzeFileChanges
  \/ BasicGetPrTemplates
  \/ BasicSuggestTemplate
  \/ ActionsAnalyzeFileChanges
  \/ ActionsGetPrTemplates
  \/ ActionsSuggestTemplate
  \/ GetRecentActionsEvents
  \/ GetWorkflowStatus

Spec == Init /\ [][Next]_vars

(***************************************************************************)
(* C1: failures never reach the dispatcher                                 *)
(***************************************************************************)
GitFailed(p) == p.raises \/ p.returncode # 0

\* the call ran into a failure of its environment
FailurePath ==
  \/ /\ call.tool = "analyze_file_changes" /\ call.server = "basic"
     /\ \/ env.roots = "raises"
        \/ GitFailed(env.name_status)
        \/ call.include_diff /\ env.name_status.stdout = TwoFiles /\ GitFailed(env.diff)
  \/ /\ call.tool = "analyze_file_changes" /\ call.server = "actions"
     /\ \/ GitFailed(env.name_status)
        \/ GitFailed(env.stat)
        \/ call.include_diff /\ GitFailed(env.diff)
        \/ GitFailed(env.log)
  \/ /\ call.tool \in {"get_pr_templates", "suggest_template"}
     /\ ~env.templates.exists
  \/ /\ call.tool \in {"get_pr_templates", "suggest_template"} /\ call.server = "actions"
     /\ \E i \in 1..Len(DEFAULT_TEMPLATES) :
          ~can_read(env.templates, DEFAULT_TEMPLATES[i].filename)
  \/ /\ call.tool \in {"get_recent_actions_events", "get_workflow_status"}
     /\ env.events.state \in {"unreadable", "malformed"}

\* C1: no tool of either server lets a failure reach the dispatcher: every
\* call returns a JSON string, and on every failure path it is an object
\* with an error key.
C1_NoFailurePropagates ==
  pc = "returned" =>
    /\ ret.kind = "return"
    /\ FailurePath => (ret.json = "object" /\ "error" \in DOMAIN ret.value)

\* the first half alone: the call returns
C1_AlwaysReturns == pc = "returned" => ret.kind = "return"

(***************************************************************************)
(* Inputs of the name-status runs: outputs of at most MaxStatusLines       *)
(* lines, each ended by a newline.  A line is what git prints, a status    *)
(* letter, a tab and a path (two paths for a rename), where a path may     *)
(* hold spaces; or a line with fewer than two fields.                      *)
(***************************************************************************)
MaxStatusLines == 2

Paths == {<<"a">>, <<"b">>, <<"a", SP>>, <<SP, "a">>, <<SP>>}

StatusLines ==
  {<<st, TAB>> \o path : st \in {"M", "A"}, path \in Paths}
  \cup {<<"R", TAB, "a", TAB, "b">>}
  \cup {<<>>, <<"M">>, <<"M", SP, "a">>}

\* the lines one after the other, each followed by a newline
RECURSIVE Printed(_)
Printed(lines) ==
  IF lines = <<>> THEN <<>> ELSE Head(lines) \o <<NL>> \o Printed(Tail(lines))

StatusTexts ==
  UNION {{Printed(f) : f \in [1..n -> StatusLines]} : n \in 0..MaxStatusLines}

InitParse ==
  /\ pc = "called"
  /\ ret = NoReturn
  /\ \E include_diff \in BOOLEAN :
       call = [server |-> "basic", tool |-> "analyze_file_changes",
               base_branch |-> "main", include_diff |-> include_diff]
  /\ \E ns \in StatusTexts,
        d \in {Completed(0, <<"d", NL>>, <<>>), Completed(128, <<>>, <<"f">>), Unavailable} :
       env = [QuietEnv EXCEPT !.name_status = Completed(0, ns, <<>>), !.diff = d]

NextParse == BasicAnalyzeFileChanges

SpecParse == InitParse /\ [][NextParse]_vars

(***************************************************************************)
(* C11: parsing of the changed files                                       *)
(***************************************************************************)
\* a basic analyze_file_changes call whose name-status subprocess exited 0
\* and that did not end in the except clause
ParseReturned ==
  /\ pc = "returned"
  /\ call.server = "basic" /\ call.tool = "analyze_file_changes"
  /\ env.roots # "raises"
  /\ ~env.name_status.raises /\ env.name_status.returncode = 0
  /\ ret.kind = "return" /\ ret.json = "object"
  /\ "total_files" \in DOMAIN ret.value

\* one (status, filename) entry per non-empty line with at least two
\* tab-separated fields, in line order
RECURSIVE EntriesOf(_)
EntriesOf(lines) ==
  IF lines = <<>> THEN <<>>
  ELSE LET fields == split(Head(lines), TAB)
       IN (IF Head(lines) # <<>> /\ Len(fields) >= 2
           THEN <<[status |-> fields[1], filename |-> fields[2]]>>
           ELSE <<>>) \o EntriesOf(Tail(lines))

\* C11: for every name-status output files_changed holds, in output order,
\* one (status, filename) entry per non-empty line with at least two
\* tab-separated fields, the other lines being skipped, and total_files is
\* its length; empty output gives an empty list, total_files 0 and diff ""
\* without running the diff subprocess.
C11_FilesChanged ==
  /\ ParseReturned =>
       /\ ret.value.files_changed = EntriesOf(split(env.name_status.stdout, NL))
       /\ ret.value.total_files = Len(ret.value.files_changed)
  /\ (/\ pc = "returned"
      /\ call.server = "basic" /\ call.tool = "analyze_file_changes"
      /\ env.roots # "raises"
      /\ ~env.name_status.raises /\ env.name_status.returncode = 0
      /\ env.name_status.stdout = <<>>) =>
       /\ ret.kind = "return" /\ ret.json = "object"
       /\ "error" \notin DOMAIN ret.value
       /\ ret.value.files_changed = <<>>
       /\ ret.value.total_files = 0
       /\ ret.value.diff = <<>>

\* the same, reading the lines of the output after its leading and trailing
\* whitespace is removed
C11_FilesChangedStripped ==
  ParseReturned =>
    /\ ret.value.files_changed = EntriesOf(split(strip(env.name_status.stdout), NL))
    /\ ret.value.total_files = Len(ret.value.files_changed)

(***************************************************************************)
(* C12: the shape of the analyze_file_changes result                       *)
(***************************************************************************)
\* the keys either server uses to say whether the diff was cut
TruncationKeys == {"diff_truncated", "truncated"}

\* C12: on every return path, in both servers, the result of
\* analyze_file_changes is a mapping holding files_changed, total_files,
\* diff and a truncation indicator.
C12_ResultShape ==
  (pc = "returned" /\ call.tool = "analyze_file_changes") =>
    /\ ret.kind = "return" /\ ret.json = "object"
    /\ {"files_changed", "total_files", "diff"} \subseteq DOMAIN ret.value
    /\ TruncationKeys \cap DOMAIN ret.value # {}

\* what does hold on every return path: the result is a mapping, and unless
\* it is an error of the actions server it holds files_changed and diff
C12_ResultShapeCommon ==
  (pc = "returned" /\ call.tool = "analyze_file_changes") =>
    /\ ret.kind = "return" /\ ret.json = "object"
    /\ (call.server = "basic" \/ "error" \notin DOMAIN ret.value)
         => {"files_changed", "diff"} \subseteq DOMAIN ret.value

(***************************************************************************)
(* Inputs of the recent-events runs: the event log is a list the webhook   *)
(* listener appends to, so its last item is the most recent event.         *)
(***************************************************************************)
\* the webhook listener stores an arriving event at the end of the list
webhook_append(log, event) == Append(log, event)

\* the log after the events of a sequence arrived in that order
RECURSIVE AppendedLog(_)
AppendedLog(arrivals) ==
  IF arrivals = <<>> THEN <<>>
  ELSE webhook_append(AppendedLog(SubSeq(arrivals, 1, Len(arrivals) - 1)),
                      arrivals[Len(arrivals)])

RecentLogs ==
  {[state |-> s, is_list |-> FALSE, items |-> <<>>] :
     s \in {"missing", "unreadable", "malformed", "loaded"}}
  \cup {[state |-> "loaded", is_list |-> TRUE, items |-> AppendedLog(arrivals)] :
          arrivals \in UNION {[1..n -> EventPool] : n \in 0..MaxEvents}}

\* limits from zero up, and a negative one
InitRecent ==
  /\ pc = "called"
  /\ ret = NoReturn
  /\ \/ \E limit \in 0..(MaxEvents + 1) :
          call = [server |-> "actions", tool |-> "get_recent_actions_events",
                  limit |-> limit]
     \/ call = [server |-> "actions", tool |-> "get_recent_actions_events",
                limit |-> -1]
  /\ \E ev \in RecentLogs : env = [QuietEnv EXCEPT !.events = ev]

NextRecent == GetRecentActionsEvents

SpecRecent == InitRecent /\ [][NextRecent]_vars

(***************************************************************************)
(* C13: the most recent events                                             *)
(***************************************************************************)
RecentReturned ==
  /\ pc = "returned"
  /\ call.server = "actions" /\ call.tool = "get_recent_actions_events"
  /\ env.events.state = "loaded"

\* the n most recently appended items of a log, in log order
MostRecent(log, n) ==
  IF n <= 0 THEN <<>>
  ELSE SubSeq(log, IF Len(log) > n THEN Len(log) - n + 1 ELSE 1, Len(log))

\* C13: for every integer limit and every log that is a list, events holds
\* at most limit records, they are the most recently appended ones, showing
\* is their number and total_events the length of the log; a log that is
\* not a list gives no events and total_events 0.
C13_MostRecent ==
  RecentReturned =>
    /\ ret.kind = "return" /\ ret.json = "object"
    /\ {"events", "total_events", "showing"} \subseteq DOMAIN ret.value
    /\ IF env.events.is_list
       THEN /\ Len(ret.value.events) <= call.limit
            /\ ret.value.events = MostRecent(env.events.items, call.limit)
            /\ ret.value.showing = Len(ret.value.events)
            /\ ret.value.total_events = Len(env.events.items)
       ELSE /\ ret.value.events = <<>>
            /\ ret.value.total_events = 0

\* the part about the counts, for limits that are not negative
C13_Counts ==
  (RecentReturned /\ call.limit >= 0) =>
    /\ ret.kind = "return" /\ ret.json = "object"
    /\ {"events", "total_events", "showing"} \subseteq DOMAIN ret.value
    /\ Len(ret.value.events) <= call.limit
    /\ ret.value.showing = Len(ret.value.events)
    /\ ret.value.total_events = (IF env.events.is_list THEN Len(env.events.items) ELSE 0)

(***************************************************************************)
(* Inputs of the workflow-status runs: logs of at most MaxLogLen events.   *)
(* Every workflow_run event of the pool has its own run_number.            *)
(***************************************************************************)
MaxLogLen == 3

StatusPool ==
  {NotDict,
   Dict([type |-> "push", payload |-> Dict(<<>>)]),
   Dict([type |-> "workflow_run", payload |-> NotDict]),
   Dict([type |-> "workflow_run"]),
   WorkflowRun(<<>>),
   WorkflowRun([name |-> "CI", status |-> "completed", conclusion |-> "success",
                updated_at |-> <<"2">>, created_at |-> <<"1">>, run_number |-> 1]),
   WorkflowRun([name |-> "CI", status |-> "in_progress", updated_at |-> <<"2">>,
                run_number |-> 2]),
   WorkflowRun([name |-> "CI", status |-> "queued", created_at |-> <<"3">>,
                run_number |-> 3]),
   WorkflowRun([name |-> "CI", status |-> "completed", conclusion |-> "failure",
                updated_at |-> <<"1">>, run_number |-> 4]),
   WorkflowRun([name |-> "Deploy", status |-> "queued", updated_at |-> <<"1">>,
                run_number |-> 5]),
   WorkflowRun([status |-> "queued", updated_at |-> <<"2">>, run_number |-> 6])}

InitStatus ==
  /\ pc = "called"
  /\ ret = NoReturn
  /\ \E workflow_name \in {"", "CI", "Deploy"} :
       call = [server |-> "actions", tool |-> "get_workflow_status",
               workflow_name |-> workflow_name]
  /\ \E arrivals \in UNION {[1..n -> StatusPool] : n \in 0..MaxLogLen} :
       env = [QuietEnv EXCEPT
                !.events = [state |-> "loaded", is_list |-> TRUE,
                            items |-> AppendedLog(arrivals)]]

NextStatus == GetWorkflowStatus

SpecStatus == InitStatus /\ [][NextStatus]_vars

(***************************************************************************)
(* C14: the latest status per workflow                                     *)
(***************************************************************************)
\* the workflow data of a log item; empty unless the item is a workflow_run
\* event whose payload carries workflow_run data
WorkflowData(item) ==
  IF /\ item.is_dict
     /\ "type" \in DOMAIN item.d /\ item.d.type = "workflow_run"
     /\ "payload" \in DOMAIN item.d /\ item.d.payload.is_dict
     /\ "workflow_run" \in DOMAIN item.d.payload.d
  THEN item.d.payload.d.workflow_run
  ELSE <<>>

\* the workflow name of an event: the name the code files it under when
\* the data has none is "Unknown"
NameOf(item) ==
  IF "name" \in DOMAIN WorkflowData(item) THEN WorkflowData(item).name ELSE "Unknown"

\* the timestamp of an event: updated_at, else created_at, else ""
TimeOf(item) ==
  IF "updated_at" \in DOMAIN WorkflowData(item) THEN WorkflowData(item).updated_at
  ELSE IF "created_at" \in DOMAIN WorkflowData(item) THEN WorkflowData(item).created_at
  ELSE <<>>

\* the positions of the events that count for a name under the filter
Candidates(log, name, filter) ==
  {i \in 1..Len(log) :
     /\ DOMAIN WorkflowData(log[i]) # {}
     /\ NameOf(log[i]) = name
     /\ filter # "" => name = filter}

\* the first position among those with the greatest timestamp
Latest(log, cands) ==
  CHOOSE i \in cands :
    \A j \in cands : /\ ~str_less(TimeOf(log[i]), TimeOf(log[j]))
                     /\ TimeOf(log[j]) = TimeOf(log[i]) => i <= j

\* a get_workflow_status call that read a list from the event log
StatusCall ==
  /\ pc = "returned"
  /\ call.server = "actions" /\ call.tool = "get_workflow_status"
  /\ env.events.state = "loaded" /\ env.events.is_list

\* ... whose workflow_run events all have a dict (or no) payload
StatusReturned ==
  /\ StatusCall
  /\ ~bad_payload(workflow_run_events(env.events.items))

Reversed(log) == [i \in 1..Len(log) |-> log[Len(log) + 1 - i]]

\* the positions of the events that count under the filter
Counted(log, filter) ==
  {i \in 1..Len(log) : i \in Candidates(log, NameOf(log[i]), filter)}

\* the result holds exactly the entries of names, each built from the
\* latest event of its name, the earliest one on a tie
LatestOf(log, names) ==
  /\ ret.kind = "return" /\ ret.json = "object"
  /\ {"workflows", "total_workflows"} \subseteq DOMAIN ret.value
  /\ DOMAIN ret.value.workflows = names
  /\ ret.value.total_workflows = Cardinality(names)
  /\ \A n \in names \cap {NameOf(log[i]) : i \in Counted(log, call.workflow_name)} :
       LET event == log[Latest(log, Candidates(log, n, call.workflow_name))]
           entry == ret.value.workflows[n]
       IN /\ entry.name = n
          /\ entry.updated_at = TimeOf(event)
          /\ entry.status = WorkflowData(event).status
          /\ entry.run_number = WorkflowData(event).run_number

====
